---- MODULE Spec2Model ----
(***************************************************************************)
(* Call-session registry and event broadcaster of dashboard_backend.py:    *)
(* ConnectionManager (active_connections, call_data, call_history) and the *)
(* HTTP / WebSocket handlers that mutate it.                               *)
(*                                                                         *)
(* The handlers are asyncio coroutines on one event loop: code between two *)
(* awaits runs atomically, and at every await another coroutine may run.   *)
(* One action of the model is therefore the completion of one await        *)
(* followed by the code up to the next await (or the return).              *)
(*                                                                         *)
(* CallData objects are shared by reference: the dict self.call_data, the  *)
(* list self.call_history and the local variable `call` of a handler can   *)
(* all name the same object.  heap[k] is the object created by the k-th    *)
(* start_call; call_data is the set of keys of the dict (key k maps to     *)
(* object k, the only insertion is call_data[call_id] = call_data in       *)
(* start_call); call_history is the list of object references.             *)
(***************************************************************************)
EXTENDS Integers, Sequences, FiniteSets, TLC

\* ------------------------------------------------------------------ bounds
MaxCalls == 2
MaxObservers == 2
MaxTasks == 2
MaxOps == 3
\* number of audio samples appended to one call in MetricsSpec
MaxSamples == 120
\* last reading of the clock in ReadSpec
MaxTime == 3

CallIds == 1..MaxCalls
Observers == 1..MaxObservers
Tasks == 1..MaxTasks

\* ------------------------------------------------------------------ values
\* class CallStatus
IDLE == "idle"
DIALING == "dialing"
RINGING == "ringing"
CONNECTED == "connected"
TALKING == "talking"
ON_HOLD == "on_hold"
TRANSFERRING == "transferring"
ENDED == "ended"
FAILED == "failed"
CallStatus == {IDLE, DIALING, RINGING, CONNECTED, TALKING, ON_HOLD, TRANSFERRING, ENDED, FAILED}
Terminal == {ENDED, FAILED}

\* end_time = None
None == 0
\* outcome = None (an outcome is a string otherwise)
NoOutcome == "None"

\* inputs of the commands
StatusInputs == {CONNECTED, FAILED}
TransferInputs == {"+15559999"}
\* the destinations asked of transfer_call
TransferTargets == {"+15550001"}
TranscriptInputs == {"hello"}
MetricInputs == {"m"}
NoData == <<>>
\* the `data` dictionaries a caller passes to update_call_status: none, or one
\* that names the record field call_id
DataInputs == {NoData} \cup {[call_id |-> d] : d \in CallIds}

VARIABLES
    active_connections,  \* ConnectionManager.active_connections: Set[WebSocket]
    call_data,           \* keys of ConnectionManager.call_data
    call_history,        \* ConnectionManager.call_history, as object references
    heap,                \* the CallData objects, by allocation number
    next_id,             \* next fresh call id (uuid4)
    ws,                  \* per websocket: state of the transport / endpoint handler
    first_msg,           \* per websocket: the type of the first message written to it
    known_calls,         \* per websocket: the call ids its snapshot or a call_started named
    snapshot,            \* per websocket: the initial_state messages written to it, where they are kept
    task,                \* the handler coroutines in flight
    last,                \* what the request that finished last gave its caller
    nops,                \* number of commands invoked so far
    now,                 \* datetime.now().timestamp()
    job,                 \* agent.py: one dispatched job (entrypoint, OutboundCaller, room)
    trunks               \* create_inbound_trunk.py: the script and the providers' configuration

\* the state of dashboard_backend.py
dashboard == <<active_connections, call_data, call_history, heap, next_id, ws, first_msg, known_calls, snapshot,
               task, last, nops, now>>

vars == <<active_connections, call_data, call_history, heap, next_id, ws, first_msg, known_calls, snapshot,
          task, last, nops, now, job, trunks>>

\* ------------------------------------------------------------------ the agent and the setup script, at rest
\* OutboundCaller.participant before set_participant
NoParticipant == "None"
\* the transfer_call tool of the agent: where it is, what it returned, and the
\* requests it made in this invocation
IdleTool == [pc |-> "idle", result |-> "none", trace |-> <<>>]
\* no job was dispatched to the worker
NoJob ==
    [pc |-> "none", transfer_to |-> "", session |-> "none", dial |-> "none", joined |-> FALSE,
     participant |-> NoParticipant, shutdown |-> FALSE, room |-> "open", log |-> <<>>,
     tool |-> IdleTool, calls |-> 0]
\* the providers' configuration: Twilio trunks, LiveKit inbound trunks, dispatch rules
NoConfig == [twilio |-> {}, inbound |-> {}, rules |-> {}]
\* the setup script was never run
NoTrunks ==
    [pc |-> "none", run |-> 0, config |-> NoConfig, next_sid |-> 1, inbound_trunk_sid |-> 0,
     first |-> NoConfig]

\* ------------------------------------------------------------------ tasks
\* the snapshots of a websocket are kept (Kept) or not looked at (Unkept)
Unkept == [kept |-> FALSE, msgs |-> <<>>]
Kept == [kept |-> TRUE, msgs |-> <<>>]

NoMsg == [type |-> "none"]
NoIter == [si_used |-> 0, pos |-> 0, todo |-> {}, visited |-> {}, disconnected |-> {}, cur |-> 0, ok |-> FALSE,
           after |-> {}]
IdleTask == [id |-> 0, op |-> "none", call |-> 0, arg |-> "none", data |-> NoData, pc |-> "idle",
             msg |-> NoMsg, it |-> NoIter]

\* a new coroutine takes the first free slot
Free(t) == task[t].pc = "idle" /\ \A u \in 1..(t - 1) : task[u].pc # "idle"

\* the body of a response that carries no data
NoBody == <<>>

\* the handler returns ("ok") or raises ("not_found": HTTPException(404),
\* "error": HTTPException(500) or the exception itself)
Return(t, tk, res) ==
    /\ task' = [task EXCEPT ![t] = IdleTask]
    /\ last' = [op |-> tk.op, call |-> tk.call, result |-> res, body |-> NoBody]

\* the coroutine of a command; the commands are numbered as they are invoked
NewTask(o, c, a) == [IdleTask EXCEPT !.id = nops + 1, !.op = o, !.call = c, !.arg = a]

\* ------------------------------------------------------------------ records
\* f"outbound-call-{call_id}"
RoomName(c) == <<"outbound-call-", c>>

\* {"positive": 0, "neutral": 100, "negative": 0}
NeutralSentiment == [positive |-> 0, neutral |-> 100, negative |-> 0]

\* (mutant) the record is created without a room
NewCallDataNoRoom(c, transfer_to) ==
    [call_id |-> c, status |-> DIALING, start_time |-> now, end_time |-> None, duration |-> 0,
     transcript |-> <<>>, audio_metrics |-> <<>>, sentiment_scores |-> NeutralSentiment,
     transfer_to |-> transfer_to, outcome |-> NoOutcome, room_name |-> <<"outbound-call-">>]

\* CallData(...) as built by start_call
NewCallData(c, transfer_to) ==
    [call_id |-> c, status |-> DIALING, start_time |-> now, end_time |-> None, duration |-> 0,
     transcript |-> <<>>, audio_metrics |-> <<>>, sentiment_scores |-> NeutralSentiment,
     transfer_to |-> transfer_to, outcome |-> NoOutcome, room_name |-> RoomName(c)]

\* call.duration = (call.end_time if call.end_time else datetime.now().timestamp()) - call.start_time
Duration(rec) == (IF rec.end_time # None THEN rec.end_time ELSE now) - rec.start_time

\* for key, value in data.items(): if hasattr(call, key): setattr(call, key, value)
ApplyData(rec, data) ==
    [f \in DOMAIN rec |-> IF f \in DOMAIN data THEN data[f] ELSE rec[f]]

\* self.call_history[-n:]
LastN(s, n) == IF Len(s) <= n THEN s ELSE SubSeq(s, Len(s) - n + 1, Len(s))

HistoryLimit == 50

\* [asdict(call) for call in refs]
Records(refs) == [i \in 1..Len(refs) |-> heap[refs[i]]]

\* sum(1 for call in self.call_history if call.outcome == "transferred")
RECURSIVE Successful(_)
Successful(refs) ==
    IF refs = <<>> THEN 0
    ELSE (IF heap[Head(refs)].outcome = "transferred" THEN 1 ELSE 0) + Successful(Tail(refs))

\* sum(call.duration for call in self.call_history)
RECURSIVE TotalDuration(_)
TotalDuration(refs) ==
    IF refs = <<>> THEN 0 ELSE heap[Head(refs)].duration + TotalDuration(Tail(refs))

\* n / d of Python: a float, kept here as the fraction; a fraction with den = 0
\* stands for the ZeroDivisionError the division raises
TrueDiv(n, d) == [num |-> n, den |-> d]

ZeroDivisionError(st) == st.average_duration.den = 0 \/ st.success_rate.den = 0

\* (mutant) the statistics are computed without the test for an empty history
get_statistics_unguarded ==
    LET total_calls == Len(call_history)
        successful == Successful(call_history)
        total_duration == TotalDuration(call_history)
    IN  [total_calls |-> total_calls,
         active_calls |-> Cardinality(call_data),
         successful_transfers |-> successful,
         average_duration |-> TrueDiv(total_duration, total_calls),
         success_rate |-> TrueDiv(successful * 100, total_calls),
         total_duration |-> total_duration]

\* ConnectionManager.get_statistics; the int 0 of the conditional expressions and
\* of the first branch is the fraction 0/1
get_statistics ==
    LET total_calls == Len(call_history) IN
    IF total_calls = 0
    THEN [total_calls |-> 0,
          active_calls |-> 0,
          successful_transfers |-> 0,
          average_duration |-> TrueDiv(0, 1),
          success_rate |-> TrueDiv(0, 1)]
    ELSE LET successful == Successful(call_history)
             total_duration == TotalDuration(call_history)
         IN  [total_calls |-> total_calls,
              active_calls |-> Cardinality(call_data),
              successful_transfers |-> successful,
              average_duration |-> IF total_calls > 0 THEN TrueDiv(total_duration, total_calls)
                                                      ELSE TrueDiv(0, 1),
              success_rate |-> IF total_calls > 0 THEN TrueDiv(successful * 100, total_calls)
                                                  ELSE TrueDiv(0, 1),
              total_duration |-> total_duration]

\* (mutant) the snapshot carries the oldest records of the history
InitialStateOldest ==
    [type |-> "initial_state",
     active_calls |-> [k \in call_data |-> heap[k]],
     call_history |-> Records(SubSeq(call_history, 1, Len(LastN(call_history, HistoryLimit)))),
     stats |-> get_statistics]

\* send_initial_state: the message built from the current state
InitialState ==
    [type |-> "initial_state",
     active_calls |-> [k \in call_data |-> heap[k]],
     call_history |-> Records(LastN(call_history, HistoryLimit)),
     stats |-> get_statistics]

Init ==
    /\ active_connections = {}
    /\ call_data = {}
    /\ call_history = <<>>
    /\ heap = <<>>
    /\ next_id = 1
    /\ ws = [o \in Observers |-> "new"]
    /\ first_msg = [o \in Observers |-> "none"]
    /\ known_calls = [o \in Observers |-> {}]
    /\ snapshot = [o \in Observers |-> Unkept]
    /\ task = [t \in Tasks |-> IdleTask]
    /\ last = [op |-> "none", call |-> 0, result |-> "none", body |-> NoBody]
    /\ nops = 0
    /\ now = 1
    /\ job = NoJob
    /\ trunks = NoTrunks

\* ------------------------------------------------------------------ broadcast
\* (mutant) the membership test also finds the calls that were moved to history
IsActiveOrEnded(c) == c \in DOMAIN heap

\* `if call_id in self.call_data` / `if call_id not in manager.call_data`
IsActive(c) == c \in call_data

\* next() of the iterator of `for connection in self.active_connections`.
\* CPython's set iterator raises RuntimeError when the set's size differs from
\* its size when the iterator was made; otherwise it yields the member in the
\* next occupied slot of the hash table after its position.  A websocket keeps
\* its slot while it is a member (the table is rebuilt only when a fifth slot
\* comes into use), so the websockets are numbered here in the order of their
\* slots: the iterator yields the least member above its position, and a
\* websocket added during the loop is reached or not according to its number.
NextOutcomes(it) ==
    IF Cardinality(active_connections) # it.si_used
    THEN {[kind |-> "error", cur |-> 0]}
    ELSE LET ahead == {c \in active_connections : c > it.pos} IN
         IF ahead = {}
         THEN {[kind |-> "end", cur |-> 0]}
         ELSE {[kind |-> "send", cur |-> CHOOSE c \in ahead : \A d \in ahead : c <= d]}

\* self.active_connections -= disconnected
CleanUp(conns, disconnected) == conns \ disconnected

\* (mutant) the history keeps the record of the call that ended last
MoveToHistoryLatestOnly(t, tk) ==
    /\ call_history' = <<tk.call>>
    /\ IF tk.call \in call_data
       THEN /\ call_data' = call_data \ {tk.call}
            /\ Return(t, tk, "ok")
       ELSE /\ call_data' = call_data
            /\ Return(t, tk, "error")

\* end_call after update_call_status returned:
\* manager.call_history.append(call); del manager.call_data[call_id]
\* (del raises KeyError when the key is gone; `except Exception` turns it into a 500)
MoveToHistory(t, tk) ==
    /\ call_history' = Append(call_history, tk.call)
    /\ IF tk.call \in call_data
       THEN /\ call_data' = call_data \ {tk.call}
            /\ Return(t, tk, "ok")
       ELSE /\ call_data' = call_data
            /\ Return(t, tk, "error")

\* The code of a handler after its `await manager.broadcast(...)` (or its
\* `await manager.update_call_status(...)`) returned; h is the heap and conns the
\* connection set as that call left them.
AfterBroadcast(t, tk, h, conns) ==
    /\ active_connections' = conns
    /\ UNCHANGED <<first_msg, known_calls, snapshot>>
    /\ heap' = h
    /\ IF tk.op = "end_call"
       THEN MoveToHistory(t, tk)
       ELSE /\ Return(t, tk, "ok")
            /\ UNCHANGED <<call_data, call_history>>

\* An exception leaves broadcast: start_call, transfer_call and end_call catch it
\* and raise HTTPException(500); the manager's methods pass it to their caller.
Raise(t, tk, h) ==
    /\ Return(t, tk, "error")
    /\ heap' = h
    /\ UNCHANGED <<active_connections, first_msg, known_calls, snapshot, call_data, call_history>>

\* What a websocket has been sent: the type of its first message, and the calls
\* that its snapshot or a call_started event told it about.
Deliver(o, msg) ==
    /\ first_msg' = [first_msg EXCEPT ![o] = IF @ = "none" THEN msg.type ELSE @]
    /\ known_calls' = [known_calls EXCEPT ![o] =
                          IF msg.type = "initial_state"
                          THEN @ \cup DOMAIN msg.active_calls
                                 \cup {msg.call_history[i].call_id : i \in DOMAIN msg.call_history}
                          ELSE IF msg.type = "call_started" THEN @ \cup {msg.call_id}
                          ELSE @]
    /\ snapshot' = [snapshot EXCEPT ![o] = IF @.kept /\ msg.type = "initial_state"
                                           THEN [@ EXCEPT !.msgs = Append(@, msg)]
                                           ELSE @]

\* task u is waiting for a send_json on websocket c that went the same way
\* (written to the connection: ok, or raising: ~ok)
Writing(u, c, ok) == task[u].pc = "bcast" /\ task[u].it.cur = c /\ task[u].it.ok = ok

\* The pending send_json of task t can complete: its websocket is not blocked,
\* and the sends that went the same way on the same websocket before it have
\* completed (the writers of one connection wait for its buffer in turn, and two
\* sends that raise do so by the same path).  A send that raises does not wait
\* for one that was written before the connection was lost.
SendCompletes(t) ==
    /\ task[t].pc = "bcast"
    /\ ws[task[t].it.cur] # "blocked"
    /\ \A u \in Tasks \ {t} :
          ~(Writing(u, task[t].it.cur, task[t].it.ok) /\ task[u].id \in task[t].it.after)

\* connection.send_json(message) is started on `cur`: the message is written to
\* the websocket when its transport is open; a transport that is gone makes the
\* await raise, a blocked one never lets it return.
Send(t, tk, h, it, cur) ==
    LET ok == ws[cur] = "open"
        after == {task[u].id : u \in {v \in Tasks \ {t} : Writing(v, cur, ok)}}
    IN
    /\ IF ok THEN Deliver(cur, tk.msg) ELSE UNCHANGED <<first_msg, known_calls, snapshot>>
    /\ task' = [task EXCEPT ![t] = [tk EXCEPT !.pc = "bcast",
                                              !.it = [it EXCEPT !.cur = cur, !.pos = cur, !.ok = ok,
                                                                !.after = after]]]
    /\ last' = last
    /\ heap' = h
    /\ UNCHANGED <<active_connections, call_data, call_history>>

\* The loop of broadcast from one next() up to the next await.
Iterate(t, tk, h, it) ==
    \E out \in NextOutcomes(it) :
        \/ out.kind = "send" /\ Send(t, tk, h, it, out.cur)
        \/ out.kind = "end" /\ AfterBroadcast(t, tk, h, CleanUp(active_connections, it.disconnected))
        \/ out.kind = "error" /\ Raise(t, tk, h)

\* ConnectionManager.broadcast, entered: disconnected = set(), the iterator is made
Broadcast(t, tk, h, msg) ==
    Iterate(t, [tk EXCEPT !.msg = msg], h,
            [NoIter EXCEPT !.si_used = Cardinality(active_connections),
                           !.todo = active_connections])

\* (mutant) the loop has no try/except: a send that raises ends the broadcast
BroadcastStepNoExcept(t) ==
    /\ SendCompletes(t)
    /\ LET it == task[t].it
           it1 == [it EXCEPT !.todo = @ \ {it.cur}, !.visited = @ \cup {it.cur},
                             !.cur = 0, !.ok = FALSE, !.after = {}]
       IN  IF it.ok THEN Iterate(t, task[t], heap, it1) ELSE Raise(t, task[t], heap)
    /\ UNCHANGED <<next_id, ws, nops, now, job, trunks>>

\* the pending send_json of a broadcast returns or raises, and the loop goes on
BroadcastStep(t) ==
    /\ SendCompletes(t)
    /\ LET it == task[t].it
           it1 == [it EXCEPT !.todo = @ \ {it.cur},
                             !.visited = IF it.ok THEN @ \cup {it.cur} ELSE @,
                             !.disconnected = IF it.ok THEN @ ELSE @ \cup {it.cur},
                             !.cur = 0, !.ok = FALSE, !.after = {}]
       IN  Iterate(t, task[t], heap, it1)
    /\ UNCHANGED <<next_id, ws, nops, now, job, trunks>>

\* ------------------------------------------------------------------ manager
StatusUpdateMsg(c, status, rec) ==
    [type |-> "call_status_update", call_id |-> c, status |-> status, data |-> rec]

\* (mutant) the message is built from the record as it was before the mutation
UpdateCallStatusStale(t, tk, h, c, status, data) ==
    IF IsActive(c)
    THEN LET h0 == [h EXCEPT ![c] = ApplyData([@ EXCEPT !.status = status], data)]
             h1 == [h0 EXCEPT ![c].duration = Duration(h0[c])]
         IN  Broadcast(t, tk, h1, StatusUpdateMsg(c, status, h[c]))
    ELSE AfterBroadcast(t, tk, h, active_connections)

\* (mutant) an update to the status the call already has is dropped
UpdateCallStatusChangesOnly(t, tk, h, c, status, data) ==
    IF IsActive(c) /\ h[c].status # status
    THEN LET h0 == [h EXCEPT ![c] = ApplyData([@ EXCEPT !.status = status], data)]
             h1 == [h0 EXCEPT ![c].duration = Duration(h0[c])]
         IN  Broadcast(t, tk, h1, StatusUpdateMsg(c, status, h1[c]))
    ELSE AfterBroadcast(t, tk, h, active_connections)

\* Attributes that every object has and that are no CallData fields: hasattr is
\* true of them, and setattr(call, "__class__", value) raises TypeError when the
\* value is not a class.
ClassAttribute == "__class__"

\* ConnectionManager.update_call_status(call_id, status, data), run by task t on heap h.
\* The status is assigned before the keys of data are looked at, so a setattr
\* that raises leaves the new status in place, the duration as it was and
\* nothing broadcast.
UpdateCallStatus(t, tk, h, c, status, data) ==
    IF IsActive(c)
    THEN IF ClassAttribute \in DOMAIN data
         THEN Raise(t, tk, [h EXCEPT ![c].status = status])
         ELSE LET h0 == [h EXCEPT ![c] = ApplyData([@ EXCEPT !.status = status], data)]
                  h1 == [h0 EXCEPT ![c].duration = Duration(h0[c])]
              IN  Broadcast(t, tk, h1, StatusUpdateMsg(c, status, h1[c]))
    ELSE AfterBroadcast(t, tk, h, active_connections)

MetricsLimit == 100

\* (mutant) the list is never cut
AppendMetricNoCap(s, m) == Append(s, m)

\* (mutant) the list is cut to its last 100 before the new sample is appended
AppendMetricCutFirst(s, m) == Append(LastN(s, MetricsLimit), m)

\* call.audio_metrics.append(metrics); keep the last 100
AppendMetric(s, m) == LastN(Append(s, m), MetricsLimit)

Invoke == nops < MaxOps /\ nops' = nops + 1

\* a caller invokes manager.update_call_status
UpdateStatus(t) ==
    /\ Free(t) /\ Invoke
    /\ \E c \in CallIds, s \in StatusInputs, d \in DataInputs :
           UpdateCallStatus(t, NewTask("update_status", c, s), heap, c, s, d)
    /\ UNCHANGED <<next_id, ws, now, job, trunks>>

\* (mutant) an entry that the transcript already holds is not appended again
TranscriptAddOnce(t, c, m) ==
    LET tk == NewTask("add_transcript", c, m)
        seen == \E i \in DOMAIN heap[c].transcript : heap[c].transcript[i] = m
    IN
    IF IsActive(c)
    THEN Broadcast(t, tk, [heap EXCEPT ![c].transcript = IF seen THEN @ ELSE Append(@, m)],
                   [type |-> "transcript_update", call_id |-> c, message |-> m])
    ELSE AfterBroadcast(t, tk, heap, active_connections)

\* ConnectionManager.add_transcript(call_id, message), run by task t
TranscriptAdd(t, c, m) ==
    LET tk == NewTask("add_transcript", c, m) IN
    IF IsActive(c)
    THEN Broadcast(t, tk, [heap EXCEPT ![c].transcript = Append(@, m)],
                   [type |-> "transcript_update", call_id |-> c, message |-> m])
    ELSE AfterBroadcast(t, tk, heap, active_connections)

\* a caller invokes manager.add_transcript
AddTranscript(t) ==
    /\ Free(t) /\ Invoke
    /\ \E c \in CallIds, m \in TranscriptInputs : TranscriptAdd(t, c, m)
    /\ UNCHANGED <<next_id, ws, now, job, trunks>>

\* ConnectionManager.update_audio_metrics(call_id, metrics), run by task t
AudioMetricsUpdate(t, c, m) ==
    LET tk == NewTask("update_audio_metrics", c, m) IN
    IF IsActive(c)
    THEN Broadcast(t, tk, [heap EXCEPT ![c].audio_metrics = AppendMetric(@, m)],
                   [type |-> "audio_metrics", call_id |-> c, metrics |-> m])
    ELSE AfterBroadcast(t, tk, heap, active_connections)

\* a caller invokes manager.update_audio_metrics
UpdateAudioMetrics(t) ==
    /\ Free(t) /\ Invoke
    /\ \E c \in CallIds, m \in MetricInputs : AudioMetricsUpdate(t, c, m)
    /\ UNCHANGED <<next_id, ws, now, job, trunks>>

\* ------------------------------------------------------------------ commands
\* POST /api/calls/start, up to `await lk_api.agent_dispatch.create_dispatch`
StartCall(t) ==
    /\ Free(t) /\ Invoke
    /\ next_id <= MaxCalls
    /\ \E to \in TransferInputs : heap' = Append(heap, NewCallData(next_id, to))
    /\ call_data' = call_data \cup {next_id}
    /\ next_id' = next_id + 1
    /\ now' = now
    /\ task' = [task EXCEPT ![t] = [NewTask("start_call", next_id, "none") EXCEPT !.pc = "dispatch"]]
    /\ UNCHANGED <<active_connections, call_history, ws, first_msg, known_calls, snapshot, last, job, trunks>>

\* create_dispatch returned: broadcast call_started, return success
DispatchOk(t) ==
    /\ task[t].pc = "dispatch"
    /\ Broadcast(t, task[t], heap,
                 [type |-> "call_started", call_id |-> task[t].call, data |-> heap[task[t].call]])
    /\ UNCHANGED <<next_id, ws, nops, now, job, trunks>>

\* create_dispatch raised: except Exception -> HTTPException(500)
DispatchFail(t) ==
    /\ task[t].pc = "dispatch"
    /\ Raise(t, task[t], heap)
    /\ UNCHANGED <<next_id, ws, nops, now, job, trunks>>

\* POST /api/calls/{call_id}/transfer, up to `await lk_api.sip.transfer_sip_participant`
TransferCall(t) ==
    /\ Free(t) /\ Invoke
    /\ \E c \in CallIds, to \in TransferTargets :
           IF IsActive(c)
           THEN /\ task' = [task EXCEPT ![t] = [NewTask("transfer", c, to) EXCEPT !.pc = "sip"]]
                /\ last' = last
           ELSE Return(t, NewTask("transfer", c, to), "not_found")
    /\ UNCHANGED <<active_connections, call_data, call_history, heap, next_id, ws, first_msg, known_calls, snapshot, now, job, trunks>>

\* the SIP transfer returned: update_call_status(TRANSFERRING, {"transfer_to": ...}), return success
SipOk(t) ==
    /\ task[t].pc = "sip"
    /\ UpdateCallStatus(t, task[t], heap, task[t].call, TRANSFERRING, [transfer_to |-> task[t].arg])
    /\ UNCHANGED <<next_id, ws, nops, now, job, trunks>>

\* (mutant) a transfer that failed marks the call FAILED before it reports the error
SipFailMarksFailed(t) ==
    /\ task[t].pc = "sip"
    /\ Raise(t, task[t], [heap EXCEPT ![task[t].call].status = FAILED])
    /\ UNCHANGED <<next_id, ws, nops, now, job, trunks>>

\* transfer_sip_participant raised: except Exception -> HTTPException(500)
SipFail(t) ==
    /\ task[t].pc = "sip"
    /\ Raise(t, task[t], heap)
    /\ UNCHANGED <<next_id, ws, nops, now, job, trunks>>

\* POST /api/calls/{call_id}/end, up to `await lk_api.room.delete_room`
EndCall(t) ==
    /\ Free(t) /\ Invoke
    /\ \E c \in CallIds :
           IF IsActive(c)
           THEN /\ task' = [task EXCEPT ![t] = [NewTask("end_call", c, "none") EXCEPT !.pc = "delete_room"]]
                /\ last' = last
           ELSE Return(t, NewTask("end_call", c, "none"), "not_found")
    /\ UNCHANGED <<active_connections, call_data, call_history, heap, next_id, ws, first_msg, known_calls, snapshot, now, job, trunks>>

\* delete_room returned: call.end_time = now; update_call_status(ENDED); move to history
DeleteRoomOk(t) ==
    /\ task[t].pc = "delete_room"
    /\ UpdateCallStatus(t, task[t], [heap EXCEPT ![task[t].call].end_time = now],
                        task[t].call, ENDED, NoData)
    /\ UNCHANGED <<next_id, ws, nops, now, job, trunks>>

\* (mutant) the call is stamped as over before the teardown is known to have worked
DeleteRoomFailStamped(t) ==
    /\ task[t].pc = "delete_room"
    /\ Raise(t, task[t], [heap EXCEPT ![task[t].call].end_time = now])
    /\ UNCHANGED <<next_id, ws, nops, now, job, trunks>>

\* delete_room raised: except Exception -> HTTPException(500)
DeleteRoomFail(t) ==
    /\ task[t].pc = "delete_room"
    /\ Raise(t, task[t], heap)
    /\ UNCHANGED <<next_id, ws, nops, now, job, trunks>>

\* ------------------------------------------------------------------ observers
\* (mutant) connect registers the websocket and leaves the snapshot for later
ConnectWithoutSnapshot(o) ==
    /\ ws[o] = "new"
    /\ active_connections' = active_connections \cup {o}
    /\ ws' = [ws EXCEPT ![o] = "open"]
    /\ UNCHANGED <<call_data, call_history, heap, next_id, first_msg, known_calls, snapshot, task, last, nops, now, job, trunks>>

\* websocket_endpoint -> manager.connect: accept, add, send_initial_state.  The
\* snapshot is built and its send started in the step that adds the websocket.
\* The send succeeds (the endpoint enters its receive loop) or raises (the
\* endpoint ends with the websocket still registered).
Connect(o) ==
    /\ ws[o] = "new"
    /\ active_connections' = active_connections \cup {o}
    /\ \/ /\ ws' = [ws EXCEPT ![o] = "open"]
          /\ Deliver(o, InitialState)
       \/ /\ ws' = [ws EXCEPT ![o] = "closed"]
          /\ UNCHANGED <<first_msg, known_calls, snapshot>>
    /\ UNCHANGED <<call_data, call_history, heap, next_id, task, last, nops, now, job, trunks>>

\* the client goes away: receive_json will raise WebSocketDisconnect
Drop(o) ==
    /\ ws[o] = "open"
    /\ ws' = [ws EXCEPT ![o] = "gone"]
    /\ UNCHANGED <<active_connections, call_data, call_history, heap, next_id, first_msg, known_calls, snapshot, task, last, nops, now, job, trunks>>

\* the client stops reading: a send to it never completes
Block(o) ==
    /\ ws[o] = "open"
    /\ ws' = [ws EXCEPT ![o] = "blocked"]
    /\ UNCHANGED <<active_connections, call_data, call_history, heap, next_id, first_msg, known_calls, snapshot, task, last, nops, now, job, trunks>>

\* (mutant) the websocket is removed when it is there and added when it is not
disconnect_toggle(connections, o) ==
    IF o \in connections THEN connections \ {o} ELSE connections \cup {o}

\* self.active_connections.discard(websocket)
disconnect(connections, o) == connections \ {o}

\* manager.disconnect(websocket), from the endpoint's except clauses
Disconnect(o) ==
    /\ ws[o] = "gone"
    /\ active_connections' = disconnect(active_connections, o)
    /\ ws' = [ws EXCEPT ![o] = "closed"]
    /\ UNCHANGED <<call_data, call_history, heap, next_id, first_msg, known_calls, snapshot, task, last, nops, now, job, trunks>>

\* ------------------------------------------------------------------ specification
TaskNext(t) ==
    \/ StartCall(t) \/ DispatchOk(t) \/ DispatchFail(t)
    \/ UpdateStatus(t) \/ AddTranscript(t) \/ UpdateAudioMetrics(t)
    \/ TransferCall(t) \/ SipOk(t) \/ SipFail(t)
    \/ EndCall(t) \/ DeleteRoomOk(t) \/ DeleteRoomFail(t)
    \/ BroadcastStep(t)

ObserverNext(o) == Connect(o) \/ Drop(o) \/ Disconnect(o)

Next == (\E t \in Tasks : TaskNext(t)) \/ (\E o \in Observers : ObserverNext(o))

Spec == Init /\ [][Next]_vars

\* The same program with clients that may stop reading.  An external call and a
\* send to a client that reads always complete: the event loop resumes a
\* coroutine whose await is done.
SlowNext == Next \/ (\E o \in Observers : Block(o))

Resume(t) ==
    \/ DispatchOk(t) \/ DispatchFail(t) \/ SipOk(t) \/ SipFail(t)
    \/ DeleteRoomOk(t) \/ DeleteRoomFail(t) \/ BroadcastStep(t)

SlowSpec == Init /\ [][SlowNext]_vars /\ \A t \in Tasks : WF_vars(Resume(t))

\* ------------------------------------------------------------------ queries and the clock
\* s[-limit:] of Python: the last `limit` elements for a positive limit, the
\* whole list for 0 (-0 is 0), the list without its first -limit elements for a
\* negative one
TailSlice(s, limit) ==
    LET start == IF limit > 0
                 THEN (IF Len(s) > limit THEN Len(s) - limit ELSE 0)
                 ELSE (IF -limit < Len(s) THEN -limit ELSE Len(s))
    IN  SubSeq(s, start + 1, Len(s))

LimitInputs == {0, 1, 50}

\* the handler of a query answers at once: there is no await in it
Respond(op, c, res, body) ==
    /\ last' = [op |-> op, call |-> c, result |-> res, body |-> body]
    /\ UNCHANGED <<active_connections, call_data, call_history, heap, next_id, ws, first_msg,
                   known_calls, snapshot, task, nops, now, job, trunks>>

\* (mutant) the statistics are refreshed by dropping the history they were computed from
GetStatisticsAndReset ==
    /\ last' = [op |-> "get_statistics", call |-> 0, result |-> "ok", body |-> get_statistics]
    /\ call_history # <<>>
    /\ call_history' = <<>>
    /\ UNCHANGED <<active_connections, call_data, heap, next_id, ws, first_msg,
                   known_calls, snapshot, task, nops, now, job, trunks>>

\* GET /api/stats
GetStatistics ==
    IF ZeroDivisionError(get_statistics)
    THEN Respond("get_statistics", 0, "error", NoBody)
    ELSE Respond("get_statistics", 0, "ok", get_statistics)

\* GET /api/calls?limit=
GetCalls ==
    \E limit \in LimitInputs :
        Respond("get_calls", limit, "ok",
                [calls |-> Records(TailSlice(call_history, limit)), total |-> Len(call_history)])

\* GET /api/calls/{call_id}: the active record, else the first historical record
\* with that call_id, else 404
GetCall ==
    \E c \in CallIds :
        IF c \in call_data
        THEN Respond("get_call", c, "ok", heap[c])
        ELSE LET found == {i \in DOMAIN call_history : heap[call_history[i]].call_id = c} IN
             IF found # {}
             THEN Respond("get_call", c, "ok",
                          heap[call_history[CHOOSE i \in found : \A j \in found : i <= j]])
             ELSE Respond("get_call", c, "not_found", NoBody)

\* time passes
Tick ==
    /\ now < MaxTime
    /\ now' = now + 1
    /\ UNCHANGED <<active_connections, call_data, call_history, heap, next_id, ws, first_msg,
                   known_calls, snapshot, task, last, nops, job, trunks>>

OutcomeInputs == {"transferred", "hung_up"}

\* the agent reports how a call went: update_call_status(call_id, status, {"outcome": ...})
ReportOutcome(t) ==
    /\ Free(t) /\ Invoke
    /\ \E c \in CallIds, s \in StatusInputs, o \in OutcomeInputs :
           UpdateCallStatus(t, NewTask("update_status", c, s), heap, c, s, [outcome |-> o])
    /\ UNCHANGED <<next_id, ws, now, job, trunks>>

\* sentiment dictionaries a caller passes: one whose percentages add up to 100
\* and one whose percentages do not
SentimentInputs ==
    {[positive |-> 60, neutral |-> 30, negative |-> 10],
     [positive |-> 50, neutral |-> 0, negative |-> 0]}

\* the agent reports the mood of a call:
\* update_call_status(call_id, status, {"sentiment_scores": ...})
ReportSentiment(t) ==
    /\ Free(t) /\ Invoke
    /\ \E c \in CallIds, s \in StatusInputs, v \in SentimentInputs :
           UpdateCallStatus(t, NewTask("update_status", c, s), heap, c, s, [sentiment_scores |-> v])
    /\ UNCHANGED <<next_id, ws, now, job, trunks>>

\* One stream of commands (a single coroutine), a dashboard that connects and
\* goes away, queries and a clock that advances.  The history starts empty or holds
\* the record of an earlier call that was ended.
ReadTask == 1
ReadObserver == 1

PastCall(o) ==
    [call_id |-> 1, status |-> ENDED, start_time |-> 1, end_time |-> 1, duration |-> 0,
     transcript |-> <<>>, audio_metrics |-> <<>>, sentiment_scores |-> NeutralSentiment,
     transfer_to |-> "+15559999", outcome |-> o, room_name |-> RoomName(1)]

ReadInit ==
    /\ now = 1
    /\ job = NoJob
    /\ trunks = NoTrunks
    /\ active_connections = {}
    /\ call_data = {}
    /\ \/ heap = <<>> /\ call_history = <<>> /\ next_id = 1
       \/ \E o \in OutcomeInputs \cup {NoOutcome} :
              heap = <<PastCall(o)>> /\ call_history = <<1>> /\ next_id = 2
    /\ ws = [o \in Observers |-> "new"]
    /\ first_msg = [o \in Observers |-> "none"]
    /\ known_calls = [o \in Observers |-> {}]
    /\ snapshot = [o \in Observers |-> Unkept]
    /\ task = [t \in Tasks |-> IdleTask]
    /\ last = [op |-> "none", call |-> 0, result |-> "none", body |-> NoBody]
    /\ nops = 0

ReadCommand(t) ==
    \/ StartCall(t) \/ DispatchOk(t) \/ DispatchFail(t)
    \/ ReportOutcome(t)
    \/ TransferCall(t) \/ SipOk(t) \/ SipFail(t)
    \/ EndCall(t) \/ DeleteRoomOk(t) \/ DeleteRoomFail(t)
    \/ BroadcastStep(t)

ReadNext ==
    \/ ReadCommand(ReadTask)
    \/ ObserverNext(ReadObserver)
    \/ GetStatistics \/ GetCalls \/ GetCall
    \/ Tick

ReadSpec == ReadInit /\ [][ReadNext]_vars

\* ------------------------------------------------------------------ overlapping commands and the clock
\* Commands of two coroutines that overlap while the clock advances, and a
\* dashboard that connects and goes away.
RaceNext ==
    \/ \E t \in Tasks : ReadCommand(t)
    \/ ObserverNext(ReadObserver)
    \/ Tick

RaceSpec == Init /\ [][RaceNext]_vars

\* ------------------------------------------------------------------ audio samples
\* The agent streams audio samples of one call: the state after a start_call
\* that succeeded before any dashboard connected, and from there on a sequence of
\* manager.update_audio_metrics(1, sample) with the samples numbered 0, 1, 2, ...
\* (nops counts them), while dashboards connect and go away.
MetricsCall == 1

MetricsInit ==
    /\ now = 1
    /\ job = NoJob
    /\ trunks = NoTrunks
    /\ active_connections = {}
    /\ call_data = {MetricsCall}
    /\ call_history = <<>>
    /\ \E to \in TransferInputs : heap = <<NewCallData(MetricsCall, to)>>
    /\ next_id = MetricsCall + 1
    /\ ws = [o \in Observers |-> "new"]
    /\ first_msg = [o \in Observers |-> "none"]
    /\ known_calls = [o \in Observers |-> {}]
    /\ snapshot = [o \in Observers |-> Unkept]
    /\ task = [t \in Tasks |-> IdleTask]
    /\ last = [op |-> "start_call", call |-> MetricsCall, result |-> "ok", body |-> NoBody]
    /\ nops = 0

\* sample number nops is appended
AppendSample(t) ==
    /\ Free(t)
    /\ nops < MaxSamples /\ nops' = nops + 1
    /\ AudioMetricsUpdate(t, MetricsCall, nops)
    /\ UNCHANGED <<next_id, ws, now, job, trunks>>

\* the samples come from one agent, one after the other: a single coroutine
MetricsTask == 1

MetricsNext ==
    \/ AppendSample(MetricsTask)
    \/ BroadcastStep(MetricsTask)
    \/ \E o \in Observers : ObserverNext(o)

MetricsSpec == MetricsInit /\ [][MetricsNext]_vars

\* ------------------------------------------------------------------ overlapping broadcasts
\* Transcript lines of one call, numbered 0, 1, 2, ... in the order in which
\* add_transcript appends them (nops counts them), added by coroutines that
\* overlap, with one dashboard more than in Spec.
OrderObservers == 1..(MaxObservers + 1)

OrderInit ==
    /\ now = 1
    /\ job = NoJob
    /\ trunks = NoTrunks
    /\ active_connections = {}
    /\ call_data = {MetricsCall}
    /\ call_history = <<>>
    /\ \E to \in TransferInputs : heap = <<NewCallData(MetricsCall, to)>>
    /\ next_id = MetricsCall + 1
    /\ ws = [o \in OrderObservers |-> "new"]
    /\ first_msg = [o \in OrderObservers |-> "none"]
    /\ known_calls = [o \in OrderObservers |-> {}]
    /\ snapshot = [o \in OrderObservers |-> Unkept]
    /\ task = [t \in Tasks |-> IdleTask]
    /\ last = [op |-> "start_call", call |-> MetricsCall, result |-> "ok", body |-> NoBody]
    /\ nops = 0

\* line number nops is added
AppendLine(t) ==
    /\ Free(t) /\ Invoke
    /\ TranscriptAdd(t, MetricsCall, nops)
    /\ UNCHANGED <<next_id, ws, now, job, trunks>>

OrderNext ==
    \/ \E t \in Tasks : AppendLine(t) \/ BroadcastStep(t)
    \/ \E o \in OrderObservers : ObserverNext(o)

OrderSpec == OrderInit /\ [][OrderNext]_vars

\* ------------------------------------------------------------------ disconnect as an operation
\* manager.disconnect(websocket) called with any websocket (registered, removed
\* by a broadcast or by an earlier disconnect, or never connected, as the last
\* websocket here) while transcript lines are broadcast.  It is synchronous and
\* returns None.
DisconnectCall(o) ==
    /\ active_connections' = disconnect(active_connections, o)
    /\ last' = [op |-> "disconnect", call |-> o, result |-> "ok", body |-> NoBody]
    /\ UNCHANGED <<call_data, call_history, heap, next_id, ws, first_msg, known_calls, snapshot,
                   task, nops, now, job, trunks>>

DetachNext ==
    \/ \E t \in Tasks : AppendLine(t) \/ BroadcastStep(t)
    \/ \E o \in Observers : ObserverNext(o)
    \/ \E o \in OrderObservers : DisconnectCall(o)

DetachSpec == OrderInit /\ [][DetachNext]_vars

\* ------------------------------------------------------------------ the mood of a call
\* The agent reports the mood of the one active call while the call is ended
\* and a dashboard connects and goes away.
MoodNext ==
    \/ \E t \in Tasks : \/ ReportSentiment(t)
                        \/ EndCall(t) \/ DeleteRoomOk(t) \/ DeleteRoomFail(t)
                        \/ BroadcastStep(t)
    \/ ObserverNext(ReadObserver)

MoodSpec == OrderInit /\ [][MoodNext]_vars

\* ------------------------------------------------------------------ the status of a call
\* The status of the one active call is set to any of the nine values, in any
\* order, by coroutines that overlap, while a dashboard connects and goes away.
SetStatus(t) ==
    /\ Free(t) /\ Invoke
    /\ \E s \in CallStatus :
           UpdateCallStatus(t, NewTask("update_status", MetricsCall, s), heap, MetricsCall, s, NoData)
    /\ UNCHANGED <<next_id, ws, now, job, trunks>>

StatusNext ==
    \/ \E t \in Tasks : SetStatus(t) \/ BroadcastStep(t)
    \/ ObserverNext(ReadObserver)
    \/ Tick

StatusSpec == OrderInit /\ [][StatusNext]_vars

\* ------------------------------------------------------------------ the keys of data
\* update_call_status(call_id, status, data) with a data dictionary of one key:
\* a field of the record, a name that is no attribute at all, and an attribute
\* of every object that is not a field.
FieldInputs ==
    {[transfer_to |-> "+15550001"], [nickname |-> "x"], [k \in {ClassAttribute} |-> "x"]}

UpdateFields(t) ==
    /\ Free(t) /\ Invoke
    /\ \E s \in StatusInputs, d \in FieldInputs :
           UpdateCallStatus(t, [NewTask("update_status", MetricsCall, s) EXCEPT !.data = d],
                            heap, MetricsCall, s, d)
    /\ UNCHANGED <<next_id, ws, now, job, trunks>>

FieldsNext ==
    \/ \E t \in Tasks : UpdateFields(t) \/ BroadcastStep(t)
    \/ ObserverNext(ReadObserver)
    \/ Tick

FieldsSpec == OrderInit /\ [][FieldsNext]_vars

\* ------------------------------------------------------------------ the agent's job
PhoneNumber == "+15550100"
\* dial_info["transfer_to"] of the job's metadata: null, empty, or a number
DialInfoInputs == {"None", "", "+15550001"}
\* `not transfer_to`
Unset(transfer_to) == transfer_to \in {"None", ""}

AgentInit ==
    /\ active_connections = {}
    /\ call_data = {}
    /\ call_history = <<>>
    /\ heap = <<>>
    /\ next_id = 1
    /\ ws = [o \in Observers |-> "new"]
    /\ first_msg = [o \in Observers |-> "none"]
    /\ known_calls = [o \in Observers |-> {}]
    /\ snapshot = [o \in Observers |-> Unkept]
    /\ task = [t \in Tasks |-> IdleTask]
    /\ last = [op |-> "none", call |-> 0, result |-> "none", body |-> NoBody]
    /\ nops = 0
    /\ now = 1
    /\ \E x \in DialInfoInputs : job = [NoJob EXCEPT !.pc = "dispatched", !.transfer_to = x]
    /\ trunks = NoTrunks

JobStep(j) == job' = j /\ UNCHANGED <<dashboard, trunks>>

\* entrypoint up to `await ctx.connect()`
entrypoint ==
    /\ job.pc = "dispatched"
    /\ JobStep([job EXCEPT !.pc = "connecting", !.log = Append(@, "connect")])

\* (mutant) the dial is requested before the session start is launched
ConnectedDialFirst ==
    /\ job.pc = "connecting"
    /\ JobStep([job EXCEPT !.pc = "dialing", !.session = "starting", !.dial = "requested",
                            !.log = @ \o <<"create_sip_participant", "session.start">>])

\* connect returned: the metadata is parsed, the agent and the session are made,
\* session.start is launched as a task, create_sip_participant is requested
Connected ==
    /\ job.pc = "connecting"
    /\ JobStep([job EXCEPT !.pc = "dialing", !.session = "starting", !.dial = "requested",
                            !.log = @ \o <<"session.start", "create_sip_participant">>])

Live == ~job.shutdown /\ job.room = "open"

\* the task session_started finishes, or raises
SessionStarted ==
    /\ job.session = "starting" /\ Live
    /\ \E s \in {"started", "failed"} : JobStep([job EXCEPT !.session = s])

\* create_sip_participant(wait_until_answered=True) returns
DialAnswered ==
    /\ job.pc = "dialing" /\ Live
    /\ JobStep([job EXCEPT !.pc = "await_session", !.dial = "answered"])

\* create_sip_participant raises TwirpError: the handler shuts the job down
DialTwirpError ==
    /\ job.pc = "dialing" /\ Live
    /\ JobStep([job EXCEPT !.pc = "exited", !.dial = "twirp_error", !.shutdown = TRUE,
                            !.log = Append(@, "shutdown")])

\* create_sip_participant raises another exception, which leaves entrypoint
DialRaises ==
    /\ job.pc = "dialing" /\ Live
    /\ JobStep([job EXCEPT !.pc = "raised", !.dial = "error"])

\* the callee's SIP participant joins the room
ParticipantJoins ==
    /\ job.dial = "answered" /\ ~job.joined /\ Live
    /\ JobStep([job EXCEPT !.joined = TRUE])

\* `await session_started` returns, or raises what session.start raised
SessionAwaited ==
    /\ job.pc = "await_session" /\ Live
    /\ \/ job.session = "started" /\ JobStep([job EXCEPT !.pc = "wait_for_participant"])
       \/ job.session = "failed" /\ JobStep([job EXCEPT !.pc = "raised"])

\* wait_for_participant returns the participant and agent.set_participant keeps it
set_participant ==
    /\ job.pc = "wait_for_participant" /\ job.joined /\ Live
    /\ JobStep([job EXCEPT !.pc = "running", !.participant = PhoneNumber,
                            !.log = Append(@, "set_participant")])

\* ------------------------------------------------------------------ the agent's transfer_call tool
MaxToolCalls == 3

ToolStep(tl) == JobStep([job EXCEPT !.tool = tl])

\* (mutant) the except branch hangs up without the apology
HangupAtOnce(trace) == [pc |-> "delete_room", result |-> "none", trace |-> trace \o <<"raised", "delete_room">>]

\* the except branch up to `await ctx.session.generate_reply(...)`
Apologize(trace) == [pc |-> "generate_reply", result |-> "none", trace |-> trace \o <<"raised", "generate_reply">>]

\* the model calls the tool: transfer_call up to its first await, or its return
transfer_call ==
    /\ job.session = "started" /\ Live
    /\ job.tool.pc \in {"idle", "returned"}
    /\ job.calls < MaxToolCalls
    /\ LET tl == IF Unset(job.transfer_to)
                 THEN [pc |-> "returned", result |-> "cannot transfer call", trace |-> <<>>]
                 ELSE IF job.participant = NoParticipant
                      THEN Apologize(<<>>)
                      ELSE [pc |-> "transfer_sip_participant", result |-> "none",
                            trace |-> <<"transfer_sip_participant">>]
       IN  JobStep([job EXCEPT !.tool = tl, !.calls = @ + 1])

\* transfer_sip_participant returns: the tool returns None
TransferSucceeds ==
    /\ job.tool.pc = "transfer_sip_participant" /\ Live
    /\ ToolStep([job.tool EXCEPT !.pc = "returned", !.result = "None"])

\* transfer_sip_participant raises
TransferRaises ==
    /\ job.tool.pc = "transfer_sip_participant" /\ Live
    /\ ToolStep(Apologize(job.tool.trace))

\* generate_reply returns: hangup requests delete_room
hangup ==
    /\ job.tool.pc = "generate_reply" /\ Live
    /\ ToolStep([job.tool EXCEPT !.pc = "delete_room", !.trace = Append(@, "delete_room")])

\* delete_room returns: the room is gone and the tool returns None
RoomDeleted ==
    /\ job.tool.pc = "delete_room" /\ Live
    /\ JobStep([job EXCEPT !.room = "deleted", !.tool.pc = "returned", !.tool.result = "None"])

AgentNext ==
    \/ entrypoint \/ Connected \/ SessionStarted
    \/ DialAnswered \/ DialTwirpError \/ DialRaises
    \/ ParticipantJoins \/ SessionAwaited \/ set_participant
    \/ transfer_call \/ TransferSucceeds \/ TransferRaises \/ hangup \/ RoomDeleted

AgentSpec == AgentInit /\ [][AgentNext]_vars

\* ------------------------------------------------------------------ the setup script
MaxRuns == 3
LiveKitTrunk == "LiveKit Trunk"
\* a Twilio trunk, with the origination URL that points to LiveKit or without
TwilioTrunk(sid, name) == [sid |-> sid, friendly_name |-> name, origination |-> TRUE]
\* the Twilio account before the first run: no trunk, some other trunk, or a
\* trunk of an earlier setup
AccountInputs == {{}, {TwilioTrunk(1, "Elastic Trunk")}, {TwilioTrunk(1, LiveKitTrunk)}}

TrunkInit ==
    /\ active_connections = {}
    /\ call_data = {}
    /\ call_history = <<>>
    /\ heap = <<>>
    /\ next_id = 1
    /\ ws = [o \in Observers |-> "new"]
    /\ first_msg = [o \in Observers |-> "none"]
    /\ known_calls = [o \in Observers |-> {}]
    /\ snapshot = [o \in Observers |-> Unkept]
    /\ task = [t \in Tasks |-> IdleTask]
    /\ last = [op |-> "none", call |-> 0, result |-> "none", body |-> NoBody]
    /\ nops = 0
    /\ now = 1
    /\ job = NoJob
    /\ \E a \in AccountInputs : trunks = [NoTrunks EXCEPT !.config.twilio = a, !.next_sid = 2]

ScriptStep(tr) == trunks' = tr /\ UNCHANGED <<dashboard, job>>

\* main returns; the configuration the first run left is remembered
Finish(tr) ==
    ScriptStep([tr EXCEPT !.pc = "done", !.first = IF tr.run = 1 THEN tr.config ELSE @])

\* python create_inbound_trunk.py: main up to client.trunking.v1.trunks.list()
main ==
    /\ trunks.pc \in {"none", "done"}
    /\ trunks.run < MaxRuns
    /\ ScriptStep([trunks EXCEPT !.pc = "list", !.run = @ + 1, !.inbound_trunk_sid = 0])

\* the list came back: a trunk named "LiveKit Trunk" is reused, else one is created
\* with its origination URL (create_livekit_trunk)
create_livekit_trunk ==
    /\ trunks.pc = "list"
    /\ IF \E tw \in trunks.config.twilio : tw.friendly_name = LiveKitTrunk
       THEN ScriptStep([trunks EXCEPT !.pc = "inbound"])
       ELSE ScriptStep([trunks EXCEPT !.pc = "inbound", !.next_sid = @ + 1,
                           !.config.twilio = @ \cup {TwilioTrunk(trunks.next_sid, LiveKitTrunk)}])

\* `lk sip inbound create`: a new inbound trunk and its SID, or a failure and None
create_inbound_trunk ==
    /\ trunks.pc = "inbound"
    /\ \/ ScriptStep([trunks EXCEPT !.pc = "dispatch", !.next_sid = @ + 1,
                          !.inbound_trunk_sid = trunks.next_sid,
                          !.config.inbound = @ \cup {trunks.next_sid}])
       \/ Finish(trunks)

\* `lk sip dispatch-rule create` for the new trunk, or its failure
create_dispatch_rule ==
    /\ trunks.pc = "dispatch"
    /\ \/ Finish([trunks EXCEPT !.config.rules = @ \cup {trunks.inbound_trunk_sid}])
       \/ Finish(trunks)

TrunkNext == main \/ create_livekit_trunk \/ create_inbound_trunk \/ create_dispatch_rule

TrunkSpec == TrunkInit /\ [][TrunkNext]_vars

\* ------------------------------------------------------------------ snapshots of a long history
\* A server that has ended many calls: the history holds the records of calls
\* 2, 3, ... in the order they ended, call 1 is active.  Two coroutines report on
\* it and end it while a dashboard connects, and its snapshot is kept.
MaxHistory == 51

PastRecord(i) ==
    [call_id |-> i, status |-> ENDED, start_time |-> 1, end_time |-> 1, duration |-> 0,
     transcript |-> <<>>, audio_metrics |-> <<>>, sentiment_scores |-> NeutralSentiment,
     transfer_to |-> "+15559999",
     outcome |-> IF i % 2 = 0 THEN "transferred" ELSE NoOutcome, room_name |-> RoomName(i)]

SnapshotInit ==
    /\ now = 1
    /\ job = NoJob
    /\ trunks = NoTrunks
    /\ active_connections = {}
    /\ call_data = {MetricsCall}
    /\ \E k \in {MaxHistory - 2, MaxHistory}, to \in TransferInputs :
          /\ heap = [i \in 1..(k + 1) |-> IF i = MetricsCall THEN NewCallData(i, to) ELSE PastRecord(i)]
          /\ call_history = [i \in 1..k |-> i + 1]
          /\ next_id = k + 2
    /\ ws = [o \in Observers |-> "new"]
    /\ first_msg = [o \in Observers |-> "none"]
    /\ known_calls = [o \in Observers |-> {}]
    /\ snapshot = [o \in Observers |-> IF o = ReadObserver THEN Kept ELSE Unkept]
    /\ task = [t \in Tasks |-> IdleTask]
    /\ last = [op |-> "start_call", call |-> MetricsCall, result |-> "ok", body |-> NoBody]
    /\ nops = 0

SnapshotNext ==
    \/ \E t \in Tasks : \/ ReportOutcome(t)
                        \/ EndCall(t) \/ DeleteRoomOk(t) \/ DeleteRoomFail(t)
                        \/ BroadcastStep(t)
    \/ ObserverNext(ReadObserver)
    \/ Tick

SnapshotSpec == SnapshotInit /\ [][SnapshotNext]_vars

\* ------------------------------------------------------------------ vocabulary of the claims
\* the historical list holds a record with call id c
InHistory(c) == \E i \in DOMAIN call_history : heap[call_history[i]].call_id = c

\* this step invokes command op on call id c (it may also finish it)
Invoked(op, c) ==
    /\ nops' = nops + 1
    /\ \/ task' = task /\ last'.op = op /\ last'.call = c
       \/ \E t \in Tasks : task'[t] # task[t] /\ task'[t].op = op /\ task'[t].call = c

\* this step invokes command op on call id c and the command finishes in it with result r
InvokedAndDone(op, c, r) ==
    nops' = nops + 1 /\ task' = task /\ last' = [op |-> op, call |-> c, result |-> r, body |-> NoBody]

\* this step starts a send_json of task t's message that reaches websocket o
SentTo(t, o) ==
    task'[t] # task[t] /\ task'[t].pc = "bcast" /\ task'[t].it.cur = o /\ task'[t].it.ok

\* this step ends task t's broadcast with the set of websockets at the size it
\* had when the loop began (the iterator does not raise)
LoopEnds(t) ==
    /\ task[t].pc = "bcast" /\ task'[t].pc = "idle"
    /\ Cardinality(active_connections) = task[t].it.si_used

ManagerOps == {"update_status", "add_transcript", "update_audio_metrics"}
UpdateEvents == {"call_status_update", "transcript_update", "audio_metrics"}

\* ------------------------------------------------------------------ claims
\* C1: every call id created by start_call (in particular every one whose
\* start_call succeeded) is in exactly one of the active map and the historical
\* list: never in both, never in neither.
C1_ExactlyOnePartition ==
    \A c \in DOMAIN heap : (c \in call_data) # InHistory(c)

\* C2: the historical list never holds two entries with the same call id, also
\* when two end_call requests for the same call overlap.
C2_NoDuplicateInHistory ==
    \A i, j \in DOMAIN call_history :
        i # j => heap[call_history[i]].call_id # heap[call_history[j]].call_id

\* C3: when the agent dispatch fails during start_call, the error is reported
\* and the new record is not left registered.
C3_FailedDispatchRollsBack ==
    [][\A t \in Tasks :
         (task[t].pc = "dispatch" /\ task'[t].pc = "idle" /\ last'.result = "error")
         => (task[t].call \notin call_data' /\ ~InHistory(task[t].call)')]_vars

\* C4: update_status, append_transcript, append_audio_metric and transfer on a
\* call id that is not active (historical or never created) report NotFound.
C4_NotActiveReportsNotFound ==
    [][\A c \in CallIds : \A op \in ManagerOps \cup {"transfer"} :
         (Invoked(op, c) /\ c \notin call_data) => InvokedAndDone(op, c, "not_found")]_vars

\* C5: update_status, append_transcript, append_audio_metric, transfer and
\* end_call on a call id that is not active start no send to any observer and
\* leave the active map, the historical records and the observer set unchanged.
C5_NotActiveChangesNothing ==
    [][\A c \in CallIds : \A op \in ManagerOps \cup {"transfer", "end_call"} :
         (Invoked(op, c) /\ c \notin call_data)
         => /\ UNCHANGED <<active_connections, call_data, call_history, heap>>
            /\ UNCHANGED <<first_msg, known_calls, snapshot>>
            /\ \A t \in Tasks : task'[t].pc # "bcast" \/ task'[t] = task[t]]_vars

\* a command on a call that is in history, and one on a call id never created, have finished
C5_Witness ==
    /\ last.op \in ManagerOps \cup {"transfer", "end_call"}
    /\ last.call \notin call_data
    /\ \/ last.call \notin DOMAIN heap
       \/ last.result = "not_found" /\ InHistory(last.call)

\* C6: no active record has status ENDED or FAILED.
C6_NoTerminalActiveRecord ==
    \A c \in call_data : heap[c].status \notin Terminal

\* C7: the first message an observer receives is its initial_state snapshot.
C7_SnapshotFirst ==
    \A o \in Observers : first_msg[o] \in {"none", "initial_state"}

\* an observer that got its snapshot has been sent an event of a broadcast
C7_Witness ==
    \E t \in Tasks, o \in Observers :
        /\ first_msg[o] = "initial_state"
        /\ task[t].pc = "bcast"
        /\ o \in task[t].it.visited \/ (task[t].it.cur = o /\ task[t].it.ok)

\* C8: an update event for a call reaches an observer only after a snapshot
\* holding the call or a call_started event for it reached that observer.
C8_EventsOnlyForKnownCalls ==
    [][\A t \in Tasks : \A o \in Observers :
         (SentTo(t, o) /\ task'[t].msg.type \in UpdateEvents)
         => task'[t].msg.call_id \in known_calls[o]]_vars

C10_SlowObserverDoesNotStall ==
    \A t \in Tasks : [](task[t].pc = "bcast" => <>(task[t].pc # "bcast"))

\* C11: after any number of append_audio_metric calls on an active call the
\* stored audio_metrics has at most 100 elements and is the last min(n, 100) of
\* the n samples appended so far, in the order they were appended.
C11_MetricsAreTheLastHundred ==
    LET n == nops
        k == IF n < 100 THEN n ELSE 100
        stored == heap[MetricsCall].audio_metrics
    IN  /\ Len(stored) <= 100
        /\ stored = [i \in 1..k |-> n - k + i - 1]

\* more than 100 samples were appended and the oldest ones are gone
C11_Witness ==
    /\ nops > 100
    /\ Len(heap[MetricsCall].audio_metrics) = 100
    /\ heap[MetricsCall].audio_metrics[1] > 0

\* C12 (as stated): after exactly 120 sequential append_audio_metric calls the
\* stored sequence has exactly 100 elements and its first element is sample #21,
\* the samples being numbered from 0.
C12_FirstIsSample21 ==
    (nops = 120 /\ task[MetricsTask].pc = "idle")
    => /\ Len(heap[MetricsCall].audio_metrics) = 100
       /\ heap[MetricsCall].audio_metrics[1] = 21

\* C12 (amended): after exactly 120 sequential append_audio_metric calls the
\* stored sequence has exactly 100 elements and its first element is sample #20,
\* the samples being numbered from 0 (samples #0..#19 are the 20 dropped).
C12_FirstIsSample20 ==
    (nops = 120 /\ task[MetricsTask].pc = "idle")
    => /\ Len(heap[MetricsCall].audio_metrics) = 100
       /\ heap[MetricsCall].audio_metrics[1] = 20
       /\ heap[MetricsCall].audio_metrics[100] = 119

\* the 120th append has returned
C12_Witness ==
    /\ nops = 120 /\ task[MetricsTask].pc = "idle"
    /\ last.op = "update_audio_metrics" /\ last.call = MetricsCall /\ last.result = "ok"

\* the duration of a record read at `time`
DurationAt(rec, time) == (IF rec.end_time # None THEN rec.end_time ELSE time) - rec.start_time

RightDuration(rec) == rec.duration = DurationAt(rec, now) /\ rec.duration >= 0

\* C13: whenever a call record is reported (in a snapshot, a call_started or
\* call_status_update event, the call list or a fetch by id) its duration is
\* (end_time if set, otherwise the time of the read) - start_time, and is not
\* negative.
C13_DurationIsDerived ==
    [][/\ (last' # last /\ last'.op = "get_call" /\ last'.result = "ok")
          => RightDuration(last'.body)
       /\ (last' # last /\ last'.op = "get_calls")
          => \A i \in DOMAIN last'.body.calls : RightDuration(last'.body.calls[i])
       /\ \A o \in Observers : (ws[o] = "new" /\ ws'[o] = "open")
          => /\ \A k \in DOMAIN InitialState.active_calls :
                   RightDuration(InitialState.active_calls[k])
             /\ \A i \in DOMAIN InitialState.call_history :
                   RightDuration(InitialState.call_history[i])
       /\ \A t \in Tasks :
            (task'[t].msg # task[t].msg /\ task'[t].msg.type \in {"call_started", "call_status_update"})
            => RightDuration(task'[t].msg.data)]_vars

\* C14: in every reachable state get_statistics reports active_calls equal to
\* the number of active records and total_calls equal to the length of the
\* historical list, also when the historical list is empty while calls are active.
C14_StatisticsCountTheCalls ==
    /\ get_statistics.active_calls = Cardinality(call_data)
    /\ get_statistics.total_calls = Len(call_history)

\* C15: get_statistics never divides by zero; with an empty historical list it
\* returns success_rate = 0 and average_duration = 0; with a non-empty one
\* successful_transfers is the number of historical records whose outcome is
\* "transferred", successful_transfers <= total_calls and 0 <= success_rate <= 100.
C15_StatisticsAreSafe ==
    LET st == get_statistics
        transferred == {i \in DOMAIN call_history : heap[call_history[i]].outcome = "transferred"}
    IN  /\ st.success_rate.den > 0 /\ st.average_duration.den > 0
        /\ call_history = <<>> => st.success_rate.num = 0 /\ st.average_duration.num = 0
        /\ call_history # <<>> =>
              /\ st.successful_transfers = Cardinality(transferred)
              /\ st.successful_transfers <= st.total_calls
              /\ 0 <= st.success_rate.num
              /\ st.success_rate.num <= 100 * st.success_rate.den

\* the statistics were asked for with a history in which one call of two was
\* transferred
C15_Witness ==
    /\ last.op = "get_statistics" /\ last.result = "ok"
    /\ last.body = get_statistics
    /\ last.body.total_calls = 2 /\ last.body.successful_transfers = 1

\* C16: get_statistics changes nothing: the active map, the historical list,
\* the records and the observer set are the same before and after it, and it
\* starts no send to any observer.
C16_StatisticsChangeNothing ==
    [][(last' # last /\ last'.op = "get_statistics")
       => /\ UNCHANGED <<active_connections, call_data, call_history, heap>>
          /\ UNCHANGED <<first_msg, known_calls, snapshot, task>>]_vars

\* the statistics were asked for while calls were active, ended calls were in
\* the history and a dashboard was connected
C16_Witness ==
    /\ last.op = "get_statistics" /\ last.result = "ok" /\ last.body.total_calls > 0
    /\ call_data # {} /\ call_history # <<>> /\ active_connections # {}

\* this step leaves every record, both partitions and the observer set as they
\* were and starts no send to any observer
NothingChanges ==
    /\ UNCHANGED <<active_connections, call_data, call_history, heap, first_msg, known_calls, snapshot>>
    /\ \A u \in Tasks : task'[u].pc # "bcast" \/ task'[u] = task[u]

\* C17: when the external SIP transfer fails during transfer(call_id, transfer_to)
\* the error is reported to the caller, the call record is unchanged, no event
\* is broadcast and the handler ends (the transfer is not tried again).
C17_FailedTransferChangesNothing ==
    [][\A t \in Tasks :
         (task[t].pc = "sip" /\ task'[t].pc \notin {"sip", "bcast"} /\ last'.result # "ok")
         => /\ task'[t] = IdleTask
            /\ last' = [op |-> "transfer", call |-> task[t].call, result |-> "error", body |-> NoBody]
            /\ NothingChanges]_vars

\* a transfer of an active call has failed and the record is as start_call made it
C17_Witness ==
    /\ last.op = "transfer" /\ last.result = "error"
    /\ last.call \in call_data
    /\ heap[last.call].status = DIALING
    /\ heap[last.call].transfer_to \in TransferInputs
    /\ active_connections # {}

\* C18: when transfer returns success the call's status was set to TRANSFERRING
\* with transfer_to set to the destination and a call_status_update was
\* broadcast, also when an end_call for the same call completes while the SIP
\* transfer is in flight.
C18_SuccessMeansApplied ==
    [][\A t \in Tasks :
         (task[t].op = "transfer" /\ task'[t].pc = "idle" /\ last'.result = "ok")
         => \/ /\ task[t].pc = "bcast"
               /\ task[t].msg.type = "call_status_update"
               /\ task[t].msg.status = TRANSFERRING
               /\ task[t].msg.data.transfer_to = task[t].arg
            \/ /\ task[t].pc = "sip"
               /\ heap'[task[t].call].status = TRANSFERRING
               /\ heap'[task[t].call].transfer_to = task[t].arg]_vars

\* C19: a successful end_call sets end_time and status ENDED and builds the
\* call_status_update carrying ENDED while the record is still active; when it
\* returns success the record is at the tail of the historical list with status
\* ENDED and an end_time, and is not active.
C19_EndCallMovesAnEndedRecord ==
    [][\A t \in Tasks :
         /\ (task[t].pc = "delete_room" /\ task'[t].pc = "bcast")
            => /\ task[t].call \in call_data'
               /\ task'[t].msg.type = "call_status_update"
               /\ task'[t].msg.status = ENDED
               /\ task'[t].msg.data.end_time # None
         /\ (task[t].op = "end_call" /\ task'[t].pc = "idle" /\ last'.result = "ok")
            => /\ task[t].call \notin call_data'
               /\ call_history' # <<>>
               /\ call_history'[Len(call_history')] = task[t].call
               /\ heap'[task[t].call].status = ENDED
               /\ heap'[task[t].call].end_time # None]_vars

\* C20: when the room teardown fails during end_call of an active call the
\* error is reported and nothing else happens: the record stays active with its
\* end_time and status as they were, nothing is appended to history and no
\* event is broadcast.
C20_FailedTeardownChangesNothing ==
    [][\A t \in Tasks :
         (task[t].pc = "delete_room" /\ task[t].call \in call_data
             /\ task'[t].pc \notin {"delete_room", "bcast"} /\ last'.result # "ok")
         => /\ task'[t] = IdleTask
            /\ last' = [op |-> "end_call", call |-> task[t].call, result |-> "error", body |-> NoBody]
            /\ task[t].call \in call_data'
            /\ NothingChanges]_vars

\* an end_call of an active call has failed: the record is active, not ended
\* and not in history
C20_Witness ==
    /\ last.op = "end_call" /\ last.result = "error"
    /\ last.call \in call_data
    /\ heap[last.call].end_time = None /\ heap[last.call].status # ENDED
    /\ call_history = <<>>
    /\ active_connections # {}

\* C21: once a record is in the historical list none of its fields changes
\* again, under any interleaving of commands (its end_time is not overwritten
\* by an overlapping second end_call, its status not by an overlapping transfer).
C21_HistoryIsImmutable ==
    [][\A i \in DOMAIN call_history :
         heap'[call_history[i]] = heap[call_history[i]]]_vars

\* C22: every record in the historical list has a terminal status (ENDED or
\* FAILED) in every reachable state.
C22_HistoryIsTerminal ==
    \A i \in DOMAIN call_history : heap[call_history[i]].status \in Terminal

\* C23: for every entry of the active map the key equals the record's call_id
\* field, whatever dictionary is passed to update_status.
C23_CallIdNeverChanges ==
    \A c \in call_data : heap[c].call_id = c

\* the websockets that task t's current broadcast has written its message to
Got(t) ==
    IF task[t].pc = "bcast"
    THEN task[t].it.visited \cup (IF task[t].it.ok THEN {task[t].it.cur} ELSE {})
    ELSE {}

\* C24: two observers that stay connected receive two events that are both
\* delivered to both of them in the order in which the mutations were applied,
\* also when the two broadcasts overlap: when an event is written to observer o
\* after another event, and a second connected observer u has been sent both,
\* the mutation of the other event was applied first.
C24_EventsArriveInMutationOrder ==
    [][\A a, b \in Tasks : \A o, u \in OrderObservers :
         (/\ a # b /\ o # u
          /\ SentTo(a, o) /\ o \in Got(b)
          /\ u \in Got(a) /\ u \in Got(b)
          /\ ws[u] = "open" /\ ws'[o] = "open")
         => task[b].msg.message < task'[a].msg.message]_vars
\* the last min(n, length) elements of s, in the order of s
Latest(s, n) ==
    LET m == IF Len(s) < n THEN Len(s) ELSE n IN
    [i \in 1..m |-> s[Len(s) - m + i]]

\* C25: connect sends the new observer exactly one snapshot, and it is the view
\* of one instant: the records active when it is sent, the last min(50, length)
\* historical records in insertion order and the statistics of that instant.
C25_SnapshotIsOneInstant ==
    [][\A o \in Observers :
         /\ Len(snapshot'[o].msgs) <= 1
         /\ ws'[o] = "open" => Len(snapshot'[o].msgs) = 1
         /\ snapshot'[o] # snapshot[o] =>
               LET m == snapshot'[o].msgs[1] IN
               /\ ws[o] = "new"
               /\ DOMAIN m.active_calls = call_data
               /\ \A c \in call_data : m.active_calls[c] = heap[c]
               /\ Len(m.call_history) = Len(Latest(call_history, 50))
               /\ \A i \in DOMAIN m.call_history :
                     m.call_history[i] = heap[Latest(call_history, 50)[i]]
               /\ m.stats.total_calls = Len(call_history)
               /\ m.stats = get_statistics]_vars

\* a dashboard connected after the active call was ended with 51 records in
\* the history: its snapshot holds the 50 latest of the 52 records, the one that
\* was appended last at the end
C25_Witness ==
    \E o \in Observers :
        /\ snapshot[o].msgs # <<>>
        /\ Len(call_history) = MaxHistory + 1
        /\ Len(snapshot[o].msgs[1].call_history) = 50
        /\ snapshot[o].msgs[1].call_history[50].call_id = MetricsCall
        /\ snapshot[o].msgs[1].stats.total_calls = MaxHistory + 1

\* this step is start_call registering a record under call id c
Registers(t, c) ==
    /\ task[t].pc = "idle" /\ task'[t].op = "start_call" /\ task'[t].pc = "dispatch"
    /\ task'[t].call = c

\* C26: start_call takes a call id that no earlier start_call was given (it is
\* no key of the active map and names no record made before) and registers
\* under it an active record with status DIALING, empty transcript and
\* audio_metrics, no end_time, sentiment 0/100/0 and the room name made from the
\* call id; when it succeeds it has broadcast one call_started event, which
\* carries the call id and the record of the call as it was when the broadcast
\* began, and which no websocket is sent twice.
C26_StartCallRegistersAndAnnounces ==
    [][\A t \in Tasks :
         /\ \A c \in CallIds :
               Registers(t, c) =>
                  /\ c \notin DOMAIN heap /\ c \notin call_data
                  /\ \A i \in DOMAIN call_history : call_history[i] # c
                  /\ call_data' = call_data \cup {c}
                  /\ heap'[c].call_id = c
                  /\ heap'[c].status = DIALING
                  /\ heap'[c].transcript = <<>> /\ heap'[c].audio_metrics = <<>>
                  /\ heap'[c].end_time = None
                  /\ heap'[c].start_time = now
                  /\ heap'[c].sentiment_scores = [positive |-> 0, neutral |-> 100, negative |-> 0]
                  /\ heap'[c].room_name = <<"outbound-call-", c>>
         /\ (task[t].op = "start_call" /\ task[t].pc = "dispatch" /\ task'[t].pc = "bcast") =>
               /\ task'[t].msg.type = "call_started"
               /\ task'[t].msg.call_id = task[t].call
               /\ task'[t].msg.data = heap[task[t].call]
         /\ (task[t].op = "start_call" /\ task[t].pc = "bcast") =>
               /\ task'[t].pc = "bcast" => task'[t].msg = task[t].msg
               /\ \A o \in Observers : SentTo(t, o) => o \notin Got(t)
               /\ (task'[t].pc = "idle" /\ last'.result = "ok") =>
                     /\ last'.op = "start_call" /\ last'.call = task[t].call
                     /\ task[t].msg.type = "call_started"
                     /\ task[t].msg.call_id = task[t].call]_vars

\* the start_call of the second call has succeeded, and an open dashboard that
\* had connected before the call was registered was sent its call_started
C26_Witness ==
    /\ last.op = "start_call" /\ last.result = "ok" /\ last.call = MaxCalls
    /\ \E o \in Observers :
          /\ ws[o] = "open"
          /\ known_calls[o] = {MaxCalls}

\* this step is a call of manager.disconnect with websocket o: one made by any
\* caller, or the one of o's endpoint
Disconnects(o) ==
    \/ /\ last'.op = "disconnect" /\ last'.call = o
       /\ task' = task /\ ws' = ws
       /\ last' # last \/ active_connections' # active_connections
    \/ ws[o] = "gone" /\ ws'[o] = "closed"

\* C27: disconnect removes the websocket from the observer set, and with a
\* websocket that is not in the set (removed before or never connected) it
\* leaves the set as it is and raises nothing; a second disconnect changes
\* nothing more; and no event is written to any websocket.
C27_DisconnectIsIdempotent ==
    [][\A o \in OrderObservers :
         Disconnects(o) =>
            /\ active_connections' = active_connections \ {o}
            /\ o \notin active_connections => active_connections' = active_connections
            /\ disconnect(active_connections', o) = active_connections'
            /\ last'.op = "disconnect" => last'.result = "ok"
            /\ task' = task
            /\ UNCHANGED <<first_msg, known_calls, snapshot, call_data, call_history, heap>>]_vars

\* disconnect was called with a websocket that never connected, while another
\* websocket is registered and a broadcast is in progress
C27_Witness ==
    /\ last.op = "disconnect" /\ last.result = "ok"
    /\ ws[last.call] = "new"
    /\ active_connections # {}
    /\ \E t \in Tasks : task[t].pc = "bcast"

\* positive + neutral + negative of a record
SentimentSum(rec) ==
    rec.sentiment_scores.positive + rec.sentiment_scores.neutral + rec.sentiment_scores.negative

\* C28: the three sentiment percentages of every call record, active or
\* historical, add up to 100.
C28_SentimentSumsTo100 ==
    \A c \in DOMAIN heap : SentimentSum(heap[c]) = 100

\* task t is broadcasting a call_status_update
Updating(t) == task[t].pc = "bcast" /\ task[t].msg.type = "call_status_update"

\* C29: the record in a call_status_update event is the whole record of the
\* call as the mutation left it (status, the fields of data, end_time and the
\* recomputed duration), and every websocket of the broadcast is sent that same
\* record, whatever is done to the call while the broadcast goes on.
C29_UpdateCarriesTheMutatedRecord ==
    [][\A t \in Tasks :
         /\ (task[t].pc # "bcast" /\ task'[t].pc = "bcast"
                /\ task'[t].msg.type = "call_status_update") =>
               LET m == task'[t].msg IN
               /\ m.call_id = task'[t].call
               /\ m.data = heap'[m.call_id]
               /\ m.data.status = m.status
               /\ m.data.duration = DurationAt(m.data, now)
         /\ (Updating(t) /\ task'[t].pc = "bcast") => task'[t].msg = task[t].msg]_vars

\* an update event has been written to one dashboard and is being written to
\* the other after another command changed the record of the call
C29_Witness ==
    \E t \in Tasks : \E o, u \in Observers :
        /\ Updating(t)
        /\ o # u /\ o \in task[t].it.visited /\ task[t].it.cur = u /\ task[t].it.ok
        /\ task[t].msg.data # heap[task[t].msg.call_id]

\* C30: a broadcast during which a websocket connects or disconnects still
\* completes: the manager operation that started it returns normally, and every
\* websocket that was in the observer set when the broadcast began and is still
\* open and registered has been sent the event.
C30_BroadcastSurvivesChurn ==
    [][\A t \in Tasks :
         (task[t].pc = "bcast" /\ task'[t].pc = "idle" /\ task[t].op \in ManagerOps) =>
            /\ last'.result = "ok"
            /\ \A o \in task[t].it.todo :
                  (ws'[o] = "open" /\ o \in active_connections') => o \in Got(t)]_vars

\* this step is update_call_status(c, s, ...) called by task t
SetsStatus(t, c, s) ==
    /\ nops' = nops + 1 /\ task[t].pc = "idle"
    /\ \/ task'[t].op = "update_status" /\ task'[t].call = c /\ task'[t].arg = s
       \/ /\ task' = task /\ last'.op = "update_status" /\ last'.call = c
          /\ last' # last \/ heap' # heap
          /\ active_connections = {} /\ heap'[c].status = s
          /\ t = ReadTask

\* C31: update_status on an active call whose status is not terminal is
\* accepted for each of the nine status values, whatever the status was: the
\* record's status is the target, no other field but the duration changes, and
\* one call_status_update with the target and the whole record is broadcast
\* (it is being sent when there is a websocket, and the call has returned
\* normally when there is none).
C31_AnyStatusIsAccepted ==
    [][\A t \in Tasks : \A c \in CallIds : \A s \in CallStatus :
         (SetsStatus(t, c, s) /\ c \in call_data /\ heap[c].status \notin Terminal) =>
            /\ heap'[c] = [heap[c] EXCEPT !.status = s, !.duration = DurationAt(heap[c], now)]
            /\ IF active_connections = {}
               THEN last'.result = "ok" /\ task' = task
               ELSE /\ task'[t].pc = "bcast"
                    /\ task'[t].msg = [type |-> "call_status_update", call_id |-> c,
                                       status |-> s, data |-> heap'[c]]]_vars

\* after an update that returned and some time, the call is set to IDLE (a value
\* that no handler of the program uses) and the event is being sent
C31_Witness ==
    \E t \in Tasks :
        /\ Updating(t) /\ task[t].msg.status = IDLE /\ task[t].it.ok
        /\ last.op = "update_status" /\ last.result = "ok"
        /\ heap[MetricsCall].status = IDLE
        /\ now > 1

\* the fields of a call record
RecordFields == DOMAIN NewCallData(1, "+15559999")

\* C32: update_status raises no error whatever the keys of partial_fields are,
\* sets the record fields that partial_fields names, and leaves every other
\* field but status and duration as it was (a key that is no record field
\* changes nothing).
C32_OnlyRecordFieldsAreApplied ==
    [][\A t \in Tasks : \A c \in CallIds :
         /\ (nops' = nops + 1 /\ task' = task /\ last'.op = "update_status") =>
               last'.result = "ok"
         /\ (task[t].pc = "idle" /\ task'[t].pc = "bcast" /\ task'[t].op = "update_status"
                /\ task'[t].call = c) =>
               LET d == task'[t].data IN
               /\ DOMAIN heap'[c] = RecordFields
               /\ \A f \in RecordFields \ {"status", "duration"} :
                     heap'[c][f] = IF f \in DOMAIN d THEN d[f] ELSE heap[c][f]]_vars

\* this step is add_transcript(c, m) called by task t on an active call
Appends(t, c, m) ==
    /\ nops' = nops + 1 /\ task[t].pc = "idle" /\ c \in call_data
    /\ \/ /\ task'[t].op = "add_transcript" /\ task'[t].call = c /\ task'[t].arg = m
          /\ task'[t].pc = "bcast"
          /\ task'[t].msg = [type |-> "transcript_update", call_id |-> c, message |-> m]
       \/ /\ active_connections = {} /\ task' = task
          /\ last' = [op |-> "add_transcript", call |-> c, result |-> "ok", body |-> NoBody]

C34_HistoryIsAppendOnly ==
    [][\/ call_history' = call_history
       \/ \E t \in Tasks :
             /\ task[t].op = "end_call" /\ task'[t].pc = "idle"
             /\ last'.op = "end_call" /\ last'.call = task[t].call
             /\ call_history' = Append(call_history, task[t].call)]_vars

\* an end_call has appended its record behind the record of an earlier call
C34_Witness ==
    /\ Len(call_history) = 2
    /\ call_history[1] # call_history[2]
    /\ last.op = "end_call" /\ last.result = "ok" /\ last.call = call_history[2]

\* C35: get_calls(limit) with limit >= 0 (0 too) answers with the last
\* min(limit, length) records of the historical list in insertion order, and
\* with total = the length of the list.
C35_GetCallsIsBounded ==
    [][(last' # last /\ last'.op = "get_calls" /\ last'.call >= 0) =>
          LET refs == Latest(call_history, last'.call) IN
          /\ Len(last'.body.calls) = Len(refs)
          /\ \A i \in DOMAIN refs : last'.body.calls[i] = heap[refs[i]]
          /\ last'.body.total = Len(call_history)]_vars

\* the place of event e in the job's log (0 when it is not there)
At(e) == IF \E i \in DOMAIN job.log : job.log[i] = e
         THEN CHOOSE i \in DOMAIN job.log : job.log[i] = e
         ELSE 0
Has(tr, e) == \E i \in DOMAIN tr : tr[i] = e

\* C36: in the agent's transfer_call tool, when the SIP transfer raises the agent
\* first generates an apology reply and then hangs up by deleting the room; when
\* the transfer succeeds the room is not deleted; with no transfer number
\* configured the tool returns "cannot transfer call" and neither issues a SIP
\* transfer nor deletes the room.
C36_FailedTransferApologizesThenHangsUp ==
    LET tl == job.tool
        returned == tl.pc = "returned" /\ job.calls > 0
    IN  /\ Has(tl.trace, "delete_room") =>
               Latest(tl.trace, 3) = <<"raised", "generate_reply", "delete_room">>
        /\ (returned /\ Has(tl.trace, "raised")) =>
               /\ Latest(tl.trace, 3) = <<"raised", "generate_reply", "delete_room">>
               /\ job.room = "deleted"
        /\ (returned /\ tl.trace = <<"transfer_sip_participant">>) =>
               /\ job.room = "open"
               /\ tl.result = "None"
        /\ (Unset(job.transfer_to) /\ job.calls > 0) =>
               /\ returned /\ tl.result = "cannot transfer call"
               /\ tl.trace = <<>> /\ job.room = "open"
        /\ job.room = "deleted" => Has(tl.trace, "raised")

\* a SIP transfer was issued and raised, and the tool has returned
C36_Witness ==
    /\ job.tool.pc = "returned"
    /\ job.tool.trace = <<"transfer_sip_participant", "raised", "generate_reply", "delete_room">>
    /\ job.room = "deleted"

\* C37: in entrypoint the session start is launched before the SIP dial is
\* requested; the participant reference is set only after the dial was
\* answered, the session start finished and the participant joined; when the
\* dial fails with a Twirp error the job is shut down and the reference is
\* never set.
C37_SessionStartsBeforeTheDial ==
    /\ At("create_sip_participant") > 0 =>
           /\ At("session.start") > 0
           /\ At("session.start") < At("create_sip_participant")
    /\ job.participant # NoParticipant =>
           /\ job.dial = "answered"
           /\ job.session = "started"
           /\ job.joined
    /\ job.dial = "twirp_error" =>
           /\ job.shutdown
           /\ job.participant = NoParticipant

\* the callee answered and the agent holds the participant
C37_Witness ==
    /\ job.pc = "running"
    /\ job.participant = PhoneNumber
    /\ At("set_participant") > At("create_sip_participant")

\* C38: the setup script is idempotent: a run of main after the first leaves the
\* external configuration (Twilio trunks, LiveKit inbound trunks, dispatch
\* rules) as the first run left it; an existing Twilio trunk named
\* "LiveKit Trunk" is reused.
C38_SetupIsIdempotent ==
    /\ (trunks.pc = "done" /\ trunks.run >= 2) => trunks.config = trunks.first
    /\ Cardinality({tw \in trunks.config.twilio : tw.friendly_name = LiveKitTrunk}) <= 1
====
